---------------------------- MODULE Spec2Model ----------------------------
(***************************************************************************)
(* wsl-clip: the classifier (classifier.rs), the smart-mode dispatch and   *)
(* text-mode orchestration (main.rs), the clipboard sink (clipboard.rs),   *)
(* the path resolver (paths.rs) and the streaming text pipeline            *)
(* (text_processor.rs).                                                    *)
(*                                                                         *)
(* Bytes and characters are one-character strings; bytes without a         *)
(* printable form are named tokens ("NUL", "ESC", "x1F", ...).  A path is  *)
(* the sequence of the characters of a single-component relative path, a   *)
(* file's content the sequence of its bytes.                               *)
(***************************************************************************)
EXTENDS Integers, Sequences, FiniteSets, TLC

\* ------------------------------------------------------------------ bounds
MaxPaths == 3
MaxNameLen == 4
MaxHeadLen == 2
MaxPieces == 4

\* ------------------------------------------------------- program constants
\* classifier.rs:45  let mut buffer = [0u8; 262];
SniffLen == 262

\* ------------------------------------------------------------- characters
\* The code point (byte value for the single-byte tokens) of a character.
Code(c) ==
  CASE c = "NUL" -> 0   [] c = "x03" -> 3   [] c = "x04" -> 4
    [] c = "BEL" -> 7   [] c = "BS"  -> 8
    [] c = "TAB" -> 9   [] c = "LF"  -> 10  [] c = "CR"  -> 13
    [] c = "x11" -> 17  [] c = "x1A" -> 26  [] c = "ESC" -> 27
    [] c = "x1F" -> 31  [] c = " "   -> 32  [] c = "#"   -> 35
    [] c = "."   -> 46  [] c = "0"   -> 48  [] c = "1"   -> 49
    [] c = "2"   -> 50  [] c = "3"   -> 51  [] c = "9"   -> 57
    [] c = "7"   -> 55  [] c = ":"   -> 58  [] c = ";"   -> 59
    [] c = "A"   -> 65  [] c = "B"   -> 66  [] c = "D"   -> 68
    [] c = "E"   -> 69  [] c = "F"   -> 70  [] c = "G"   -> 71
    [] c = "I"   -> 73  [] c = "K"   -> 75  [] c = "L"   -> 76
    [] c = "M"   -> 77  [] c = "N"   -> 78  [] c = "O"   -> 79
    [] c = "P"   -> 80  [] c = "R"   -> 82
    [] c = "S"   -> 83  [] c = "T"   -> 84  [] c = "X"   -> 88
    [] c = "Z"   -> 90  [] c = "["   -> 91  [] c = "\\"  -> 92
    [] c = "BQ"  -> 96
    [] c = "a"   -> 97  [] c = "b"   -> 98  [] c = "c"   -> 99
    [] c = "d"   -> 100 [] c = "e"   -> 101 [] c = "f"   -> 102
    [] c = "g"   -> 103 [] c = "h"   -> 104 [] c = "i"   -> 105
    [] c = "j"   -> 106 [] c = "k"   -> 107 [] c = "l"   -> 108
    [] c = "m"   -> 109 [] c = "n"   -> 110 [] c = "o"   -> 111
    [] c = "p"   -> 112 [] c = "r"   -> 114 [] c = "s"   -> 115
    [] c = "t"   -> 116 [] c = "u"   -> 117 [] c = "v"   -> 118
    [] c = "w"   -> 119 [] c = "x"   -> 120 [] c = "y"   -> 121
    [] c = "z"   -> 122 [] c = "|"   -> 124 [] c = "DEL" -> 127
    [] c = "x7F" -> 127 [] c = "x8B" -> 139 [] c = "xA1" -> 161
    [] c = "xB1" -> 177 [] c = "xCF" -> 207 [] c = "xD0" -> 208
    [] c = "xD8" -> 216 [] c = "xE0" -> 224 [] c = "xE1" -> 225
    [] c = "xFF" -> 255

Min(a, b) == IF a <= b THEN a ELSE b

\* s[from..] (empty when from is past the end)
Tail_from(s, from) == SubSeq(s, from, Len(s))

\* All sequences over S of length at most n.
SeqsUpTo(S, n) == UNION { [1..k -> S] : k \in 0..n }

\* str::to_lowercase on the letters the model uses.
to_lowercase_char(c) ==
  CASE c = "A" -> "a" [] c = "B" -> "b" [] c = "D" -> "d" [] c = "E" -> "e"
    [] c = "F" -> "f" [] c = "G" -> "g" [] c = "I" -> "i" [] c = "K" -> "k"
    [] c = "L" -> "l" [] c = "M" -> "m" [] c = "N" -> "n" [] c = "R" -> "r"
    [] c = "S" -> "s" [] c = "T" -> "t" [] c = "X" -> "x" [] c = "Z" -> "z"
    [] OTHER -> c

\* Variant: the extension compared as written.
to_lowercase_id(s) == s

to_lowercase(s) == [i \in 1..Len(s) |-> to_lowercase_char(s[i])]

\* ------------------------------------------------------------- classifier
\* classifier.rs:18-21
ASSET_EXTS ==
  { <<"d","x","f">>, <<"o","b","j">>, <<"s","t","l">>, <<"p","l","y">>,
    <<"g","c","o","d","e">>, <<"s","v","g">>, <<"e","p","s">>, <<"a","i">>,
    <<"p","s","d">>, <<"p","d","f">>, <<"z","i","p">>, <<"7","z">>,
    <<"t","a","r">>, <<"g","z">>, <<"r","a","r">>, <<"i","s","o">>,
    <<"d","l","l">>, <<"b","i","n">>, <<"e","x","e">>, <<"j","a","r">>,
    <<"c","l","a","s","s">> }

\* Index of the last '.' of s, 0 when there is none.
RECURSIVE LastDot(_, _)
LastDot(s, i) ==
  IF i = 0 THEN 0 ELSE IF s[i] = "." THEN i ELSE LastDot(s, i - 1)

\* Path::extension of a single-component path: None for "", "." and "..",
\* for a name without a dot and for a name whose only dot is its first
\* character; otherwise the part after the last dot (possibly empty).
extension(p) ==
  LET d == LastDot(p, Len(p)) IN
  IF p = <<>> \/ p = <<".">> \/ p = <<".", ".">> \/ d <= 1
    THEN [some |-> FALSE, ext |-> <<>>]
    ELSE [some |-> TRUE, ext |-> Tail_from(p, d + 1)]

\* classifier.rs:22-29
is_asset_extension(p) ==
  LET e == extension(p) IN
  e.some /\ to_lowercase(e.ext) \in ASSET_EXTS

StartsWith(buf, sig) ==
  Len(buf) >= Len(sig) /\ SubSeq(buf, 1, Len(sig)) = sig

\* The signature matchers of the infer crate, on the signatures the model's
\* files use: BMP, GIF and JPEG images; gzip and zip archives; ELF and
\* MZ executables; the OLE2 header of a legacy Word document.
is_image(buf) ==
  \/ (Len(buf) > 1 /\ StartsWith(buf, <<"B", "M">>))
  \/ (Len(buf) > 2 /\ StartsWith(buf, <<"G", "I", "F">>))
  \/ (Len(buf) > 2 /\ StartsWith(buf, <<"xFF", "xD8", "xFF">>))

is_archive(buf) ==
  \/ (Len(buf) > 2 /\ StartsWith(buf, <<"x1F", "x8B", "BS">>))
  \/ (Len(buf) > 3 /\ StartsWith(buf, <<"P", "K", "x03", "x04">>))

is_app(buf) ==
  \/ (Len(buf) > 1 /\ StartsWith(buf, <<"M", "Z">>))
  \/ (Len(buf) > 52 /\ StartsWith(buf, <<"x7F", "E", "L", "F">>))

is_doc(buf) ==
  Len(buf) > 7 /\
  StartsWith(buf, <<"xD0", "xCF", "x11", "xE0", "xA1", "xB1", "x1A", "xE1">>)

contains(buf, b) == \E i \in 1..Len(buf) : buf[i] = b

\* File::open (classifier.rs:43): fails for a missing path and for one the
\* process may not read; a directory and a character device open.
CanOpen(f) == f.kind \in {"file", "device", "dir", "ioerr"}

\* file.read(&mut buffer) (classifier.rs:46): the number of bytes read, or
\* an error (a directory gives EISDIR, "ioerr" a failing device).
ReadResult(f) ==
  IF f.kind \in {"file", "device"}
    THEN [ok |-> TRUE, n |-> Min(Len(f.content), SniffLen)]
    ELSE [ok |-> FALSE, n |-> 0]

\* Variant: the null-byte heuristic tried before the signatures.
sniff_null_first(buffer) ==
  IF contains(buffer, "NUL") THEN "File"
  ELSE IF is_image(buffer) THEN "Image"
  ELSE IF is_archive(buffer) \/ is_app(buffer) \/ is_doc(buffer) THEN "File"
  ELSE "Text"

\* The content tests of classifier.rs:48-68, in their order.
sniff(buffer) ==
  IF is_image(buffer) THEN "Image"
  ELSE IF is_archive(buffer) \/ is_app(buffer) \/ is_doc(buffer) THEN "File"
  ELSE IF contains(buffer, "NUL") THEN "File"
  ELSE "Text"

\* classifier.rs:32-69.  opened / read record whether File::open and
\* file.read were called.
inspect(path, f) ==
  IF is_asset_extension(path)
    THEN [ok |-> TRUE, verdict |-> "File", opened |-> FALSE, read |-> FALSE]
  ELSE IF ~CanOpen(f)
    THEN [ok |-> FALSE, verdict |-> "none", opened |-> TRUE, read |-> FALSE]
  ELSE
    LET r == ReadResult(f)
        n == IF r.ok THEN r.n ELSE 0   \* .unwrap_or(0)
        buffer == SubSeq(f.content, 1, n)
    IN [ok |-> TRUE, verdict |-> sniff(buffer), opened |-> TRUE, read |-> TRUE]


\* ---------------------------------------------------------- text pipeline
\* Bytes that are not valid UTF-8 on their own.
InvalidBytes == {"x8B", "xA1", "xB1", "xCF", "xD0", "xD8", "xE0", "xE1", "xFF"}

\* Index of the first LF of s at or after i, 0 when there is none.
RECURSIVE FirstLF(_, _)
FirstLF(s, i) ==
  IF i > Len(s) THEN 0 ELSE IF s[i] = "LF" THEN i ELSE FirstLF(s, i + 1)

\* One item of BufRead::lines: raw is the bytes before the LF (or before the
\* end of input when hadLF is false).  Bytes that are not UTF-8 give Err;
\* the LF is dropped, and a CR right before it.
LineItem(raw, hadLF) ==
  IF \E i \in 1..Len(raw) : raw[i] \in InvalidBytes
    THEN [ok |-> FALSE, text |-> <<>>]
    ELSE [ok |-> TRUE,
          text |-> IF hadLF /\ Len(raw) > 0 /\ raw[Len(raw)] = "CR"
                     THEN SubSeq(raw, 1, Len(raw) - 1) ELSE raw]

\* BufRead::lines over a whole input (text_processor.rs:99, 137).
RECURSIVE LinesOf(_)
LinesOf(c) ==
  IF c = <<>> THEN <<>>
  ELSE LET k == FirstLF(c, 1) IN
       IF k = 0 THEN << LineItem(c, FALSE) >>
       ELSE << LineItem(SubSeq(c, 1, k - 1), TRUE) >> \o LinesOf(Tail_from(c, k + 1))

Digits == {"0", "1", "2", "3", "4", "5", "6", "7", "8", "9"}

\* The final bytes of the character class [m|K] (text_processor.rs:29).
AnsiFinal == {"m", "|", "K"}

\* First index at or after i of a character that is neither digit nor ';'.
RECURSIVE ParamEnd(_, _)
ParamEnd(s, i) ==
  IF i > Len(s) \/ s[i] \notin (Digits \cup {";"}) THEN i ELSE ParamEnd(s, i + 1)

\* s[i..] is  [0-9]{1,2}(;[0-9]{1,2})*  given d digits of the current group
\* already read.
RECURSIVE ParamsOk(_, _, _)
ParamsOk(s, i, d) ==
  IF i > Len(s) THEN d >= 1
  ELSE IF s[i] = ";" THEN d >= 1 /\ ParamsOk(s, i + 1, 0)
  ELSE d < 2 /\ ParamsOk(s, i + 1, d + 1)

\* Index of the last character of the match of the ANSI regex starting at i, 0 when
\* there is no match at i:  \x1B\[([0-9]{1,2}(;[0-9]{1,2})*)?[m|K]
MatchEnd(s, i) ==
  IF i + 1 > Len(s) \/ s[i] # "ESC" \/ s[i + 1] # "[" THEN 0
  ELSE LET e == ParamEnd(s, i + 2)
           params == SubSeq(s, i + 2, e - 1)
       IN IF e <= Len(s) /\ s[e] \in AnsiFinal
             /\ (params = <<>> \/ ParamsOk(params, 1, 0))
            THEN e ELSE 0

\* re.replace_all(&processed, ""): leftmost non-overlapping matches removed.
RECURSIVE replace_all(_, _)
replace_all(s, i) ==
  IF i > Len(s) THEN <<>>
  ELSE LET e == MatchEnd(s, i) IN
       IF e > 0 THEN replace_all(s, e + 1)
       ELSE <<s[i]>> \o replace_all(s, i + 1)

\* char::is_control: the Cc category.
is_control(c) == Code(c) <= 31 \/ Code(c) \in 127..159

\* The filter without the exception for the tab.
RECURSIVE control_filter_no_tab(_)
control_filter_no_tab(s) ==
  IF s = <<>> THEN <<>>
  ELSE (IF ~is_control(s[1]) THEN <<s[1]>> ELSE <<>>)
       \o control_filter_no_tab(Tail(s))

\* .chars().filter(|&c| !c.is_control() || c == '\t')
RECURSIVE control_filter(_)
control_filter(s) ==
  IF s = <<>> THEN <<>>
  ELSE (IF ~is_control(s[1]) \/ s[1] = "TAB" THEN <<s[1]>> ELSE <<>>)
       \o control_filter(Tail(s))

\* The content with the regex applied and the characters left unfiltered.
processed_strip_only(line, o) ==
  IF o.strip_ansi THEN replace_all(line, 1) ELSE line

\* The content write_line writes for a line (text_processor.rs:36-48).
processed(line, o) ==
  IF o.strip_ansi THEN control_filter(replace_all(line, 1)) ELSE line

\* The terminator write_line appends (text_processor.rs:49-58).
Terminator(o) == IF o.use_crlf THEN <<"CR", "LF">> ELSE <<"LF">>

\* str::replace("\n", "\r\n")
RECURSIVE replace_lf(_)
replace_lf(s) ==
  IF s = <<>> THEN <<>>
  ELSE (IF s[1] = "LF" THEN <<"CR", "LF">> ELSE <<s[1]>>) \o replace_lf(Tail(s))

\* A framing string written as formatted, whatever the options.
Framed_verbatim(s, o) == s

\* A framing string as written (text_processor.rs:79-83 and alike).
Framed(s, o) == IF o.use_crlf THEN replace_lf(s) ELSE s

\* Utc::now().format(...), one value per run (text_processor.rs:33).
timestamp == <<"2", "T", "1", "Z">>

\* format!("# FILE: {} READ: {}\n", path.display(), timestamp)
header(path) ==
  <<"#", " ", "F", "I", "L", "E", ":", " ">> \o path
  \o <<" ", "R", "E", "A", "D", ":", " ">> \o timestamp \o <<"LF">>

\* path.extension().and_then(|s| s.to_str()).unwrap_or("")
fence_tag(path) == LET e == extension(path) IN IF e.some THEN e.ext ELSE <<>>

\* format!("```{}\n", ext)
md_block(path) == <<"BQ", "BQ", "BQ">> \o fence_tag(path) \o <<"LF">>

md_end == <<"BQ", "BQ", "BQ", "LF">>

\* processed_list.join(" ")
RECURSIVE join(_)
join(l) ==
  IF l = <<>> THEN <<>>
  ELSE IF Len(l) = 1 THEN l[1]
  ELSE l[1] \o <<" ">> \o join(Tail(l))

\* format!("# End of FILES. SENT: {}\n", processed_list.join(" "))
footer(l) ==
  <<"#", " ", "E", "n", "d", " ", "o", "f", " ", "F", "I", "L", "E", "S", ".",
    " ", "S", "E", "N", "T", ":", " ">> \o join(l) \o <<"LF">>

\* PathBuf ordering of single-component paths: byte-wise lexicographic.
RECURSIVE PathLess(_, _)
PathLess(a, b) ==
  IF b = <<>> THEN FALSE
  ELSE IF a = <<>> THEN TRUE
  ELSE IF Code(a[1]) # Code(b[1]) THEN Code(a[1]) < Code(b[1])
  ELSE PathLess(Tail(a), Tail(b))

\* l with x put before the first element greater than x (l sorted).
RECURSIVE Insert(_, _)
Insert(x, l) ==
  IF l = <<>> THEN <<x>>
  ELSE IF PathLess(x, l[1]) THEN <<x>> \o l
  ELSE <<l[1]>> \o Insert(x, Tail(l))

RECURSIVE InsertionSort(_)
InsertionSort(l) ==
  IF l = <<>> THEN <<>> ELSE Insert(l[Len(l)], InsertionSort(SubSeq(l, 1, Len(l) - 1)))

\* Variant: the list processed in the order given.
sort_unsorted(l) == l

\* file_list.sort() (text_processor.rs:66)
sort(l) == InsertionSort(l)

\* ------------------------------------------------------------------ state
VARIABLES
  cpc,            \* classifier run: "start" | "done"
  cPath,          \* classifier run: the path given to inspect
  cFile,          \* classifier run: what the file system holds at that path
  cResult,        \* classifier run: the value inspect returned
  pc,             \* position of main
  files,          \* cli.files: [some, list]
  idx,            \* number of paths the current loop has consumed
  img_count, file_count, text_count,
  outcome,        \* the dispatch branch main took
  win_paths,      \* resolved paths collected so far
  sinkCalls,      \* powershell.exe runs: [mode, paths]
  result,         \* what main returned: "running" | "Ok" | an error name
  stream,         \* clip.exe: "none" | "open" | "closed"
  eofSignals,     \* times clip.exe's stdin was closed
  waited,         \* main waited for clip.exe's exit status
  out,            \* bytes written to clip.exe's stdin
  opts,           \* TextOptions
  file_list,      \* process_input: the sorted list
  processed_list, \* process_input: paths opened and streamed
  lines,          \* lines the current reader has still to yield
  lineNo,         \* lines of the current source written so far
  tpc,            \* write_line run: "start" | "written" | "done"
  tLine,          \* write_line run: the line record given to write_line
  tOpts,          \* write_line run: [strip_ansi, use_crlf]
  tWritten,       \* write_line run: the bytes write_line wrote
  tAgain          \* write_line run: the bytes written for the output fed back

cvars == <<cpc, cPath, cFile, cResult>>
mvars == <<pc, files, idx, img_count, file_count, text_count, outcome,
           win_paths, sinkCalls, result, stream, eofSignals, waited, out,
           opts, file_list, processed_list, lines, lineNo>>
tvars == <<tpc, tLine, tOpts, tWritten, tAgain>>
vars == <<cvars, mvars, tvars>>

\* ------------------------------------------------- classifier, run alone
NameChars == {"a", "i", "I", "."}
Names == SeqsUpTo(NameChars, MaxNameLen)

HeadBytes == {"NUL", "B", "M", "a"}
MagicHeads ==
  { <<"G", "I", "F">>, <<"xFF", "xD8", "xFF">>, <<"x1F", "x8B", "BS">>,
    <<"M", "Z">>, <<"x7F", "E", "L", "F">>, <<"B", "M", "NUL">>,
    <<"xD0", "xCF", "x11", "xE0", "xA1", "xB1", "x1A", "xE1">> }
Heads == SeqsUpTo(HeadBytes, MaxHeadLen) \cup MagicHeads

\* head, then 'a' up to byte n.
PadTo(head, n) == [i \in 1..n |-> IF i <= Len(head) THEN head[i] ELSE "a"]

\* A head alone, and a head padded so that a NUL is the last byte sampled
\* or the first byte not sampled.
Contents ==
  Heads \cup { PadTo(h, SniffLen - 1) \o <<"NUL">> : h \in Heads }
        \cup { PadTo(h, SniffLen) \o <<"NUL">> : h \in Heads }

FileStates ==
  { [kind |-> k, content |-> <<>>] :
      k \in {"missing", "noperm", "dir", "ioerr", "device"} }
  \cup { [kind |-> "file", content |-> c] : c \in Contents }

NoResult == [ok |-> FALSE, verdict |-> "none", opened |-> FALSE, read |-> FALSE]

TransformIdle ==
  /\ tpc = "idle" /\ tLine = <<>>
  /\ tOpts = [strip_ansi |-> FALSE, use_crlf |-> FALSE]
  /\ tWritten = <<>> /\ tAgain = <<>>

MainIdle ==
  /\ pc = "idle" /\ files = [some |-> FALSE, list |-> <<>>] /\ idx = 0
  /\ img_count = 0 /\ file_count = 0 /\ text_count = 0
  /\ outcome = "none" /\ win_paths = <<>> /\ sinkCalls = <<>>
  /\ result = "running" /\ stream = "none" /\ eofSignals = 0
  /\ waited = FALSE /\ out = <<>>
  /\ opts = [no_header |-> FALSE, strip_ansi |-> FALSE,
             use_markdown |-> FALSE, use_crlf |-> FALSE]
  /\ file_list = <<>> /\ processed_list = <<>> /\ lines = <<>> /\ lineNo = 0

ClassifyInit ==
  /\ cpc = "start"
  /\ cPath \in Names
  /\ cFile \in FileStates
  /\ cResult = NoResult
  /\ MainIdle
  /\ TransformIdle

\* One call of classifier::inspect.
Classify ==
  /\ cpc = "start"
  /\ cResult' = inspect(cPath, cFile)
  /\ cpc' = "done"
  /\ UNCHANGED <<cPath, cFile, mvars, tvars>>

ClassifyNext == Classify

SpecClassify == ClassifyInit /\ [][ClassifyNext]_vars


\* ---------------------------------------------------- classifier: claims
\* Two characters equal up to ASCII case.
SameLetter(a, b) ==
  \/ a = b
  \/ (Code(a) \in 65..90 /\ Code(a) + 32 = Code(b))
  \/ (Code(b) \in 65..90 /\ Code(b) + 32 = Code(a))

\* p is stem '.' ext with a non-empty stem, no dot in ext, and ext equal
\* up to case to a member of the override set.
OverrideName(p) ==
  \E d \in 2..Len(p) :
    /\ p[d] = "."
    /\ \A j \in (d + 1)..Len(p) : p[j] # "."
    /\ \E e \in ASSET_EXTS :
         /\ Len(e) = Len(p) - d
         /\ \A j \in 1..Len(e) : SameLetter(p[d + j], e[j])

NoExtension(p) == \A d \in 2..Len(p) : p[d] # "."

\* The bytes classify samples from a readable file.
SampledPrefix(f) ==
  [i \in 1..(IF Len(f.content) < 262 THEN Len(f.content) ELSE 262) |-> f.content[i]]

\* C3: a path whose extension is, up to case, in the override set is
\* classified FileObject without the file being opened or read, whatever
\* the file system holds at the path (content, a directory, nothing); a
\* path with no extension is never taken by the override: its file is
\* opened.
ThmC3_ExtensionOverride ==
  cpc = "done" =>
    /\ OverrideName(cPath) =>
         cResult = [ok |-> TRUE, verdict |-> "File",
                    opened |-> FALSE, read |-> FALSE]
    /\ NoExtension(cPath) => cResult.opened

\* An upper-case override extension on a path that does not exist.
WitC3_UpperCaseMissing ==
  /\ cpc = "done"
  /\ cPath = <<"a", ".", "a", "I">>
  /\ cFile.kind = "missing"
  /\ cResult.ok /\ cResult.verdict = "File" /\ ~cResult.opened

\* C4: for a readable file without an override extension the verdict is
\* decided on the sampled prefix (at most 262 bytes) in strict precedence:
\* image signature -> Image; else archive, executable or document
\* signature -> FileObject; else a NUL byte in the prefix -> FileObject;
\* else Text.  An empty file is Text, without error.
ThmC4_SniffPrecedence ==
  (cpc = "done" /\ ~OverrideName(cPath) /\ cFile.kind \in {"file", "device"}) =>
    LET s == SampledPrefix(cFile)
        img == is_image(s)
        bin == is_archive(s) \/ is_app(s) \/ is_doc(s)
        nul == \E i \in 1..Len(s) : s[i] = "NUL"
    IN /\ cResult.ok
       /\ img => cResult.verdict = "Image"
       /\ (~img /\ bin) => cResult.verdict = "File"
       /\ (~img /\ ~bin /\ nul) => cResult.verdict = "File"
       /\ (~img /\ ~bin /\ ~nul) => cResult.verdict = "Text"
       /\ cFile.content = <<>> => cResult.verdict = "Text"

\* An image signature followed by a NUL byte is an Image.
WitC4_ImageWithNull ==
  /\ cpc = "done"
  /\ ~OverrideName(cPath)
  /\ cFile = [kind |-> "file", content |-> <<"B", "M", "NUL">>]
  /\ cResult.verdict = "Image"

\* C5 (as claimed): without an override extension, a path that cannot be
\* opened or whose content cannot be read makes classify return an error,
\* never a verdict.
ClaimC5_UnreadableIsError ==
  (cpc = "done" /\ ~OverrideName(cPath)
     /\ cFile.kind \in {"missing", "noperm", "dir", "ioerr"}) =>
    ~cResult.ok


\* ------------------------------------------------------------ environment
PA == <<"a", ".", "p", "y">>
PB == <<"b">>
PD == <<"d">>
PI == <<"i">>
PM == <<"m", ".", "D", "X", "F">>
PN == <<"n">>
PU == <<"u">>
PV == <<"v">>
PZ == <<"z">>
Paths == {PA, PB, PD, PI, PM, PN, PU, PV, PZ}

\* A text file whose name holds an escape sequence.
PE == <<"e", "ESC", "[", "m">>

\* What the file system holds at each path: two text files (one with an
\* ANSI sequence, a bell, a CRLF and no final newline), a directory, a
\* bitmap, a binary file, a text file whose second line is not UTF-8, an
\* empty character device, and two paths that do not exist (one with an
\* override extension).
FS(p) ==
  CASE p = PA -> [kind |-> "file", content |-> <<"x", "LF", "y", "LF">>]
    [] p = PB -> [kind |-> "file",
                  content |-> <<"ESC", "[", "1", "m", "r", "BEL", "CR", "LF", "t">>]
    [] p = PD -> [kind |-> "dir", content |-> <<>>]
    [] p = PE -> [kind |-> "file", content |-> <<"k", "LF">>]
    [] p = PI -> [kind |-> "file", content |-> <<"B", "M", "NUL">>]
    [] p = PN -> [kind |-> "file", content |-> <<"a", "NUL">>]
    [] p = PU -> [kind |-> "file", content |-> <<"o", "LF", "xFF", "LF">>]
    [] p = PV -> [kind |-> "device", content |-> <<>>]
    [] OTHER  -> [kind |-> "missing", content |-> <<>>]

\* What standard input holds when it is not a terminal.
StdinInputs ==
  { <<>>, <<"h", "i", "LF">>, <<"ESC", "[", "K", "o", "LF", "xFF">>,
    <<"x", "CR", "CR", "LF", "TAB", "BS">> }

TextOptionsSet ==
  [no_header : BOOLEAN, strip_ansi : BOOLEAN,
   use_markdown : BOOLEAN, use_crlf : BOOLEAN]

\* Path::exists() && Path::is_file() (text_processor.rs:71)
is_regular_file(p) == FS(p).kind \in {"file", "noperm", "ioerr"}

\* What a reader over the file at p yields (text_processor.rs:98-99).
FileLines(p) ==
  IF FS(p).kind \in {"file", "device"} THEN LinesOf(FS(p).content)
  ELSE << [ok |-> FALSE, text |-> <<>>] >>

\* wslpath -w of the canonical path (paths.rs:15-29).
win_path_of(p) == <<"\\">> \o p

\* ------------------------------------------------------------------- main
None == [some |-> FALSE, list |-> <<>>]
Some(l) == [some |-> TRUE, list |-> l]

Ok == [tag |-> "Ok"]
Err(t) == [tag |-> t]
Running == [tag |-> "running"]

ClassifyIdle ==
  /\ cpc = "idle" /\ cPath = <<>>
  /\ cFile = [kind |-> "missing", content |-> <<>>]
  /\ cResult = NoResult

\* cli.files as clap delivers it: absent, or one to MaxPaths paths.
Init ==
  /\ ClassifyIdle
  /\ TransformIdle
  /\ pc = "start"
  /\ files \in {None} \cup { Some(l) : l \in SeqsUpTo(Paths, MaxPaths) \ {<<>>} }
  /\ idx = 0 /\ img_count = 0 /\ file_count = 0 /\ text_count = 0
  /\ outcome = "none" /\ win_paths = <<>> /\ sinkCalls = <<>>
  /\ result = Running /\ stream = "none" /\ eofSignals = 0
  /\ waited = FALSE /\ out = <<>>
  /\ opts = [no_header |-> FALSE, strip_ansi |-> FALSE,
             use_markdown |-> FALSE, use_crlf |-> FALSE]
  /\ file_list = <<>> /\ processed_list = <<>> /\ lines = <<>> /\ lineNo = 0

\* main returns Err(t): the ClipboardStream, if there is one, is dropped,
\* which closes clip.exe's stdin; nothing waits for clip.exe.
ReturnErr(t) ==
  /\ result' = Err(t)
  /\ pc' = "done"
  /\ IF stream = "open"
       THEN stream' = "closed" /\ eofSignals' = eofSignals + 1
       ELSE UNCHANGED <<stream, eofSignals>>
  /\ UNCHANGED waited

\* main.rs:116-119
Start ==
  /\ pc = "start"
  /\ pc' = IF files.some /\ files.list # <<>> THEN "classify" ELSE "text"
  /\ UNCHANGED <<cvars, tvars, files, idx, img_count, file_count, text_count, outcome,
                 win_paths, sinkCalls, result, stream, eofSignals, waited, out,
                 opts, file_list, processed_list, lines, lineNo>>

\* main.rs:123-133, one iteration
ClassifyStep ==
  /\ pc = "classify"
  /\ LET f == files.list[idx + 1]
         r == inspect(f, FS(f))
     IN IF r.ok
          THEN /\ img_count' = img_count + (IF r.verdict = "Image" THEN 1 ELSE 0)
               /\ file_count' = file_count + (IF r.verdict = "File" THEN 1 ELSE 0)
               /\ text_count' = text_count + (IF r.verdict = "Text" THEN 1 ELSE 0)
               /\ idx' = idx + 1
               /\ pc' = IF idx + 1 = Len(files.list) THEN "dispatch" ELSE "classify"
               /\ UNCHANGED <<result, stream, eofSignals, waited>>
          ELSE /\ ReturnErr("FailedToReadFile")
               /\ UNCHANGED <<img_count, file_count, text_count, idx>>
  /\ UNCHANGED <<cvars, tvars, files, outcome, win_paths, sinkCalls, out, opts,
                 file_list, processed_list, lines, lineNo>>

\* Variant: a batch is mixed only when all three categories are present.
categories_mixed_all3(i, f, t) == i > 0 /\ f > 0 /\ t > 0

\* main.rs:135-137
categories_mixed(i, f, t) ==
  (IF i > 0 THEN 1 ELSE 0) + (IF f > 0 THEN 1 ELSE 0) + (IF t > 0 THEN 1 ELSE 0) > 1

\* Variant: any all-image batch goes to the image branch.
single_image_any(n) == n >= 1

\* main.rs:148
single_image(n) == n = 1

\* main.rs:134-177
Dispatch ==
  /\ pc = "dispatch"
  /\ IF categories_mixed(img_count, file_count, text_count)
       THEN /\ outcome' = "RejectedMixed"
            /\ result' = [tag |-> "MixedContent", images |-> img_count,
                          files |-> file_count, text |-> text_count]
            /\ pc' = "done"
       ELSE /\ outcome' =
                 IF img_count > 0
                   THEN (IF single_image(Len(files.list))
                           THEN "SingleImage" ELSE "MultiAsFileObjects")
                 ELSE IF file_count > 0 THEN "MultiAsFileObjects"
                 ELSE "FallThroughText"
            /\ pc' = IF outcome' = "FallThroughText" THEN "text" ELSE "resolve"
            /\ UNCHANGED result
  /\ idx' = 0
  /\ UNCHANGED <<cvars, tvars, files, img_count, file_count, text_count, win_paths,
                 sinkCalls, stream, eofSignals, waited, out, opts, file_list,
                 processed_list, lines, lineNo>>

\* How many paths the branch resolves: &files[0] alone (main.rs:150), or
\* every path (main.rs:157-159, 169-171).
\* The last path of a multi-path batch is left unresolved.
ToResolve_but_last ==
  IF outcome = "SingleImage" THEN 1 ELSE Len(files.list) - 1

ToResolve == IF outcome = "SingleImage" THEN 1 ELSE Len(files.list)

\* paths::to_windows_path on the next path (paths.rs:10-30): canonicalize
\* fails for a path that does not exist; wslpath may fail.
ResolveStep ==
  /\ pc = "resolve"
  /\ idx < ToResolve
  /\ LET f == files.list[idx + 1] IN
       \/ /\ FS(f).kind = "missing"
          /\ ReturnErr("FailedToResolvePath")
          /\ UNCHANGED <<win_paths, idx>>
       \/ /\ FS(f).kind # "missing"
          /\ ReturnErr("WslpathFailed")
          /\ UNCHANGED <<win_paths, idx>>
       \/ /\ FS(f).kind # "missing"
          /\ win_paths' = Append(win_paths, win_path_of(f))
          /\ idx' = idx + 1
          /\ UNCHANGED <<pc, result, stream, eofSignals, waited>>
  /\ UNCHANGED <<cvars, tvars, files, img_count, file_count, text_count, outcome,
                 sinkCalls, out, opts, file_list, processed_list, lines, lineNo>>

\* clipboard::set_complex (clipboard.rs:15-55) and main's return.
SetComplex ==
  /\ pc = "resolve"
  /\ idx = ToResolve
  /\ LET mode == IF outcome = "SingleImage" THEN "Image" ELSE "File" IN
       IF mode = "Image" /\ Len(win_paths) # 1
         THEN /\ ReturnErr("ImageModeOneFile")
              /\ UNCHANGED sinkCalls
         ELSE \/ /\ ReturnErr("FailedToExecutePowershell")
                 /\ UNCHANGED sinkCalls
              \/ /\ sinkCalls' = Append(sinkCalls, [mode |-> mode, paths |-> win_paths])
                 /\ ReturnErr("PowershellErrorStatus")
              \/ /\ sinkCalls' = Append(sinkCalls, [mode |-> mode, paths |-> win_paths])
                 /\ result' = Ok
                 /\ pc' = "done"
                 /\ UNCHANGED <<stream, eofSignals, waited>>
  /\ UNCHANGED <<cvars, tvars, files, idx, img_count, file_count, text_count, outcome,
                 win_paths, out, opts, file_list, processed_list, lines, lineNo>>

\* The failing run of calls got every byte into the pipe.
WriteFails_whole(bytes) ==
  /\ out' = out \o bytes
  /\ ReturnErr("WriteFailed")

\* A run of writer.write_all calls over bytes fails: some proper prefix
\* reached the pipe; the error propagates out of main.
WriteFails(bytes) ==
  /\ \E k \in 0..(Len(bytes) - 1) : out' = out \o SubSeq(bytes, 1, k)
  /\ ReturnErr("WriteFailed")

\* main.rs:180-188: TextOptions from the flags, then start_text_stream
\* (clipboard.rs:72-81).
StartTextStream ==
  /\ pc = "text"
  /\ opts' \in TextOptionsSet
  /\ \/ /\ ReturnErr("FailedToSpawnClip")
     \/ /\ stream' = "open"
        /\ pc' = "process_input"
        /\ UNCHANGED <<result, eofSignals, waited>>
  /\ UNCHANGED <<cvars, tvars, files, idx, img_count, file_count, text_count, outcome,
                 win_paths, sinkCalls, out, file_list, processed_list, lines,
                 lineNo>>

\* process_input entered with a file list (text_processor.rs:61-69).
BeginFiles ==
  /\ pc = "process_input"
  /\ files.some
  /\ IF files.list = <<>>
       THEN pc' = "wait" /\ UNCHANGED file_list
       ELSE pc' = "pi_file" /\ file_list' = sort(files.list)
  /\ idx' = 0
  /\ processed_list' = <<>>
  /\ UNCHANGED <<cvars, tvars, files, img_count, file_count, text_count, outcome,
                 win_paths, sinkCalls, result, stream, eofSignals, waited, out,
                 opts, lines, lineNo>>

\* process_input entered without one (text_processor.rs:129-136): standard
\* input is a terminal, or holds some input.
BeginStdin ==
  /\ pc = "process_input"
  /\ ~files.some
  /\ \/ /\ ReturnErr("NoInputProvided")
        /\ UNCHANGED <<lines>>
     \/ /\ \E input \in StdinInputs : lines' = LinesOf(input)
        /\ pc' = "pi_stdin"
        /\ UNCHANGED <<result, stream, eofSignals, waited>>
  /\ lineNo' = 0
  /\ UNCHANGED <<cvars, tvars, files, idx, img_count, file_count, text_count, outcome,
                 win_paths, sinkCalls, out, opts, file_list, processed_list>>

\* What is written before a file's content (text_processor.rs:76-94).
Opening(path, o) ==
  (IF ~o.no_header THEN Framed(header(path), o) ELSE <<>>)
  \o (IF o.use_markdown THEN Framed(md_block(path), o) ELSE <<>>)

\* What is written after it (text_processor.rs:103-119).
Closing(o) ==
  (IF o.use_markdown THEN Framed(md_end, o) ELSE <<>>)
  \o (IF ~o.no_header THEN Terminator(o) ELSE <<>>)

\* The loop head for the next path (text_processor.rs:70-98): skip it, or
\* record it, write its header and fence and open it.
NextFile ==
  /\ pc = "pi_file"
  /\ idx < Len(file_list)
  /\ LET path == file_list[idx + 1] IN
       IF ~is_regular_file(path)
         THEN /\ idx' = idx + 1
              /\ UNCHANGED <<pc, result, stream, eofSignals, waited, out,
                             processed_list, lines>>
         ELSE /\ processed_list' = Append(processed_list, path)
              /\ \/ /\ Opening(path, opts) # <<>>
                    /\ WriteFails(Opening(path, opts))
                    /\ UNCHANGED <<idx, lines>>
                 \/ /\ FS(path).kind = "noperm"
                    /\ out' = out \o Opening(path, opts)
                    /\ ReturnErr("FailedToReadFile")
                    /\ UNCHANGED <<idx, lines>>
                 \/ /\ FS(path).kind # "noperm"
                    /\ out' = out \o Opening(path, opts)
                    /\ lines' = FileLines(path)
                    /\ pc' = "pi_lines"
                    /\ UNCHANGED <<idx, result, stream, eofSignals, waited>>
  /\ lineNo' = 0
  /\ UNCHANGED <<cvars, tvars, files, img_count, file_count, text_count, outcome,
                 win_paths, sinkCalls, opts, file_list>>

\* One iteration of a line loop (text_processor.rs:99-102, 137-140): the
\* next line is read, and write_line (35-60) writes it.
LineStep(here) ==
  /\ pc = here
  /\ lines # <<>>
  /\ IF ~lines[1].ok
       THEN /\ ReturnErr("FailedToReadLine")
            /\ UNCHANGED <<out, lines, lineNo>>
       ELSE LET bytes == processed(lines[1].text, opts) \o Terminator(opts) IN
            \/ /\ WriteFails(bytes)
               /\ UNCHANGED <<lines, lineNo>>
            \/ /\ out' = out \o bytes
               /\ lines' = Tail(lines)
               /\ lineNo' = lineNo + 1
               /\ UNCHANGED <<pc, result, stream, eofSignals, waited>>
  /\ UNCHANGED <<cvars, tvars, files, idx, img_count, file_count, text_count, outcome,
                 win_paths, sinkCalls, opts, file_list, processed_list>>

FileLine == LineStep("pi_lines")

StdinLine == LineStep("pi_stdin")

\* The file is exhausted (text_processor.rs:103-120).
EndFile ==
  /\ pc = "pi_lines"
  /\ lines = <<>>
  /\ \/ /\ Closing(opts) # <<>>
        /\ WriteFails(Closing(opts))
        /\ UNCHANGED idx
     \/ /\ out' = out \o Closing(opts)
        /\ idx' = idx + 1
        /\ pc' = "pi_file"
        /\ UNCHANGED <<result, stream, eofSignals, waited>>
  /\ UNCHANGED <<cvars, tvars, files, img_count, file_count, text_count, outcome,
                 win_paths, sinkCalls, opts, file_list, processed_list, lines,
                 lineNo>>

\* text_processor.rs:68, 121
footer_due(o, total_files, n_processed) ==
  ~o.no_header /\ total_files > 1

\* After the last path (text_processor.rs:121-128, 142).
Footer ==
  /\ pc = "pi_file"
  /\ idx = Len(file_list)
  /\ IF footer_due(opts, Len(file_list), Len(processed_list))
       THEN \/ WriteFails(Framed(footer(processed_list), opts))
            \/ /\ out' = out \o Framed(footer(processed_list), opts)
               /\ pc' = "wait"
               /\ UNCHANGED <<result, stream, eofSignals, waited>>
       ELSE /\ pc' = "wait"
            /\ UNCHANGED <<out, result, stream, eofSignals, waited>>
  /\ UNCHANGED <<cvars, tvars, files, idx, img_count, file_count, text_count, outcome,
                 win_paths, sinkCalls, opts, file_list, processed_list, lines,
                 lineNo>>

\* Standard input is exhausted (text_processor.rs:137, 142).
EndStdin ==
  /\ pc = "pi_stdin"
  /\ lines = <<>>
  /\ pc' = "wait"
  /\ UNCHANGED <<cvars, tvars, files, idx, img_count, file_count, text_count, outcome,
                 win_paths, sinkCalls, result, stream, eofSignals, waited, out,
                 opts, file_list, processed_list, lines, lineNo>>

\* stream.wait() (main.rs:196, clipboard.rs:61-69): stdin is dropped, then
\* clip.exe's exit status is awaited.
StreamWait ==
  /\ pc = "wait"
  /\ stream' = "closed"
  /\ eofSignals' = eofSignals + 1
  /\ waited' = TRUE
  /\ result' \in {Ok, Err("ClipErrorStatus"), Err("FailedToWaitForClip")}
  /\ pc' = "done"
  /\ UNCHANGED <<cvars, tvars, files, idx, img_count, file_count, text_count, outcome,
                 win_paths, sinkCalls, out, opts, file_list, processed_list,
                 lines, lineNo>>

Next ==
  \/ Start \/ ClassifyStep \/ Dispatch \/ ResolveStep \/ SetComplex
  \/ StartTextStream \/ BeginFiles \/ BeginStdin \/ NextFile \/ FileLine
  \/ StdinLine \/ EndFile \/ Footer \/ EndStdin \/ StreamWait

Spec == Init /\ [][Next]_vars

\* main given any value of Option<Vec<PathBuf>> (main.rs:58), the empty
\* list included, over paths that include the one with the escape sequence.
AnyPaths == {PA, PE, PI}

AnyInit ==
  /\ ClassifyIdle
  /\ TransformIdle
  /\ pc = "start"
  /\ files \in {None} \cup { Some(l) : l \in SeqsUpTo(AnyPaths, MaxPaths) }
  /\ idx = 0 /\ img_count = 0 /\ file_count = 0 /\ text_count = 0
  /\ outcome = "none" /\ win_paths = <<>> /\ sinkCalls = <<>>
  /\ result = Running /\ stream = "none" /\ eofSignals = 0
  /\ waited = FALSE /\ out = <<>>
  /\ opts = [no_header |-> FALSE, strip_ansi |-> FALSE,
             use_markdown |-> FALSE, use_crlf |-> FALSE]
  /\ file_list = <<>> /\ processed_list = <<>> /\ lines = <<>> /\ lineNo = 0

SpecAnyInput == AnyInit /\ [][Next]_vars

\* ------------------------------------------------------- dispatch: claims
\* What classify returns for each path of the environment.
PathVerdict == [p \in Paths |-> inspect(p, FS(p))]

\* The verdict of the i-th path of the invocation.
VerdictAt(i) == PathVerdict[files.list[i]]

\* Smart mode with every path classified.
Classified ==
  /\ files.some /\ files.list # <<>>
  /\ \A i \in 1..Len(files.list) : VerdictAt(i).ok

CountOf(v) == Cardinality({ i \in 1..Len(files.list) : VerdictAt(i).verdict = v })

CategoriesPresent ==
  { v \in {"Image", "File", "Text"} : CountOf(v) > 0 }

NoSinkInteraction ==
  /\ sinkCalls = <<>> /\ stream = "none" /\ eofSignals = 0 /\ out = <<>>

\* C1: in smart mode, when the classified batch holds verdicts of more than
\* one category, no sink interaction ever happens (no powershell.exe run,
\* clip.exe never started or written to) and the invocation ends with the
\* mixed-content error carrying the three counts.
ThmC1_MixedRejected ==
  (Classified /\ Cardinality(CategoriesPresent) > 1) =>
    /\ NoSinkInteraction
    /\ pc \in {"start", "classify", "dispatch", "done"}
    /\ pc = "done" =>
         result = [tag |-> "MixedContent", images |-> CountOf("Image"),
                   files |-> CountOf("File"), text |-> CountOf("Text")]

\* One image among two text files, image last.
WitC1_StrayImage ==
  /\ pc = "done"
  /\ files.list = <<PA, PB, PI>>
  /\ result.tag = "MixedContent"
  /\ outcome = "RejectedMixed"

\* The outcome the claim assigns to a non-mixed batch.
ClaimedOutcome ==
  IF CountOf("Image") > 0
    THEN (IF Len(files.list) = 1 THEN "SingleImage" ELSE "MultiAsFileObjects")
  ELSE IF CountOf("File") > 0 THEN "MultiAsFileObjects"
  ELSE "FallThroughText"

AllResolved == [i \in 1..Len(files.list) |-> win_path_of(files.list[i])]

\* C2: for a non-mixed, non-empty classified batch the outcome is the one
\* the tally and the path count fix, it is the only one the invocation
\* takes, and the sink is used accordingly: the image capability is only
\* ever called with exactly one path (the single input path, under
\* SingleImage), the file-object capability with all paths (under
\* MultiAsFileObjects), the text stream only under FallThroughText; a run
\* that returns Ok has used exactly the capability of its outcome.
ThmC2_DispatchOutcome ==
  /\ \A k \in 1..Len(sinkCalls) :
       sinkCalls[k].mode = "Image" => Len(sinkCalls[k].paths) = 1
  /\ (Classified /\ Cardinality(CategoriesPresent) = 1) =>
       /\ outcome \in {"none", ClaimedOutcome}
       /\ pc \notin {"start", "classify", "dispatch"} => outcome = ClaimedOutcome
       /\ Len(sinkCalls) <= 1
       /\ \A k \in 1..Len(sinkCalls) :
            /\ sinkCalls[k].mode = "Image" =>
                 /\ outcome = "SingleImage"
                 /\ sinkCalls[k].paths = <<win_path_of(files.list[1])>>
            /\ sinkCalls[k].mode = "File" =>
                 /\ outcome = "MultiAsFileObjects"
                 /\ sinkCalls[k].paths = AllResolved
       /\ stream # "none" => (outcome = "FallThroughText" /\ sinkCalls = <<>>)
       /\ (pc = "done" /\ result = Ok) =>
            /\ outcome = "FallThroughText" <=> stream # "none"
            /\ outcome # "FallThroughText" <=> Len(sinkCalls) = 1

\* Two images: copied as file objects.
WitC2_TwoImages ==
  /\ pc = "done" /\ result = Ok
  /\ files.list = <<PI, PI>>
  /\ outcome = "MultiAsFileObjects"
  /\ sinkCalls = << [mode |-> "File", paths |-> AllResolved] >>

\* ------------------------------------------------------ text mode: claims
\* C6 (as claimed): once the text stream has been acquired, every way the
\* invocation ends - success or a read, write or usage error - has signaled
\* end-of-input exactly once and has waited for the sink's completion
\* status.
ClaimC6_EofOnceThenWait ==
  (pc = "done" /\ stream # "none") => (eofSignals = 1 /\ waited)

\* C7 (as claimed): with no path list and standard input a terminal, the
\* invocation fails with the usage error and the sink's text stream was
\* never opened.
ClaimC7_UsageErrorBeforeSink ==
  (pc = "done" /\ ~files.some /\ result = Err("NoInputProvided")) =>
    (stream = "none" /\ eofSignals = 0)

\* Readable text files, and entries that do not exist or are no regular
\* file.
TextFiles == {PA, PB}
SkippableEntries == {PD, PV, PZ}

\* C8 (as claimed): an invocation given readable text files plus an entry
\* that does not exist or is not a regular file is not aborted by that
\* entry: it takes the text branch, and when it ends it has failed, if at
\* all, only in the sink (spawning, writing to or waiting for clip.exe).
ClaimC8_BadEntrySkipped ==
  (/\ pc = "done"
   /\ files.some
   /\ \A i \in 1..Len(files.list) : files.list[i] \in TextFiles \cup SkippableEntries
   /\ \E i \in 1..Len(files.list) : files.list[i] \in TextFiles
   /\ \E i \in 1..Len(files.list) : files.list[i] \in SkippableEntries) =>
    /\ outcome = "FallThroughText"
    /\ result.tag \in {"Ok", "FailedToSpawnClip", "WriteFailed",
                       "ClipErrorStatus", "FailedToWaitForClip"}

\* The number of paths of the environment that order before p.
PathRank == [p \in Paths |-> Cardinality({ q \in Paths : PathLess(q, p) })]

\* The place of the i-th input path in ascending order: one more than the
\* number of input paths that are smaller, or equal and given earlier.
Rank(i) ==
  1 + Cardinality({ j \in 1..Len(files.list) :
                      \/ PathRank[files.list[j]] < PathRank[files.list[i]]
                      \/ (files.list[j] = files.list[i] /\ j < i) })

\* The input paths in ascending order.
SortedInput ==
  [k \in 1..Len(files.list) |->
     files.list[CHOOSE i \in 1..Len(files.list) : Rank(i) = k]]

RECURSIVE Concat(_)
Concat(ss) == IF ss = <<>> THEN <<>> ELSE ss[1] \o Concat(Tail(ss))

RECURSIVE Keep(_, _)
Keep(l, S) ==
  IF l = <<>> THEN <<>>
  ELSE (IF l[1] \in S THEN <<l[1]>> ELSE <<>>) \o Keep(Tail(l), S)

\* The lines of a file up to, not including, the first that cannot be read.
RECURSIVE ReadableLines(_)
ReadableLines(ls) ==
  IF ls = <<>> \/ ~ls[1].ok THEN <<>> ELSE <<ls[1].text>> \o ReadableLines(Tail(ls))

EOL(o) == IF o.use_crlf THEN <<"CR", "LF">> ELSE <<"LF">>

\* The block of one file: header line, opening fence, lines, closing
\* fence, blank line.
Block(p, o) ==
  (IF o.no_header THEN <<>>
   ELSE <<"#", " ", "F", "I", "L", "E", ":", " ">> \o p
        \o <<" ", "R", "E", "A", "D", ":", " ">> \o timestamp \o EOL(o))
  \o (IF o.use_markdown
        THEN <<"BQ", "BQ", "BQ">>
             \o (IF \E d \in 2..Len(p) : p[d] = "."
                   THEN Tail_from(p, 1 + CHOOSE d \in 2..Len(p) :
                          p[d] = "." /\ \A j \in (d + 1)..Len(p) : p[j] # ".")
                   ELSE <<>>)
             \o EOL(o)
        ELSE <<>>)
  \o (LET ls == ReadableLines(FileLines(p)) IN
      Concat([i \in 1..Len(ls) |-> processed(ls[i], o) \o EOL(o)]))
  \o (IF o.use_markdown THEN <<"BQ", "BQ", "BQ">> \o EOL(o) ELSE <<>>)
  \o (IF o.no_header THEN <<>> ELSE EOL(o))

RegularFiles == {p \in Paths : FS(p).kind = "file"}

\* The input paths that are regular files, in ascending order.
Streamed == Keep(SortedInput, RegularFiles)

BlockTable == [p \in Paths |-> [o \in TextOptionsSet |-> Block(p, o)]]

BlocksOf(l, o) == Concat([i \in 1..Len(l) |-> BlockTable[l[i]][o]])

FooterLine(l, o) ==
  <<"#", " ", "E", "n", "d", " ", "o", "f", " ", "F", "I", "L", "E", "S", ".",
    " ", "S", "E", "N", "T", ":", " ">>
  \o Concat([i \in 1..Len(l) |-> (IF i > 1 THEN <<" ">> ELSE <<>>) \o l[i]])
  \o EOL(o)

IsPrefix(a, b) == Len(a) <= Len(b) /\ a = SubSeq(b, 1, Len(a))

\* C9: in file-list mode what has been written is at every moment a prefix
\* of, and once the pipeline has returned successfully is exactly, the
\* blocks of the streamed files in ascending path order, one contiguous
\* block per file (header unless suppressed, tagged opening fence when
\* fencing, the lines in file order, closing fence when fencing, blank line
\* unless headers are suppressed), followed by nothing or by the footer
\* line; it is the same for every order in which the paths were given.
ThmC9_SortedBlocks ==
  (files.some /\ stream # "none") =>
    LET streamed == Streamed
        blocks == BlocksOf(streamed, opts)
        foot == FooterLine(streamed, opts)
    IN /\ IsPrefix(out, blocks \o foot)
       /\ pc = "wait" => (out = blocks \/ out = blocks \o foot)

\* Two files given in descending order, with headers and fences.
WitC9_ReversedInput ==
  /\ pc = "wait"
  /\ files.list = <<PB, PA>>
  /\ ~opts.no_header /\ opts.use_markdown /\ opts.strip_ansi
  /\ out # <<>>

\* C10 (as claimed): in file-list mode, when the pipeline has returned
\* successfully, the footer line is the last thing written exactly when
\* headers are not suppressed and more than one file was streamed, and it
\* lists the streamed paths; otherwise no footer is written.
ClaimC10_FooterIffManyStreamed ==
  (files.some /\ pc = "wait") =>
    LET streamed == Streamed IN
    out = BlocksOf(streamed, opts)
          \o (IF ~opts.no_header /\ Len(streamed) > 1
                THEN FooterLine(streamed, opts) ELSE <<>>)


\* --------------------------------------------------- terminators: claims
\* The bytes a step appended to the stream.
Appended == SubSeq(out', Len(out) + 1, Len(out'))

\* The content of the line a line-loop step is about to write, <<>> at any
\* other step.
ContentBody ==
  IF pc \in {"pi_lines", "pi_stdin"} /\ lines # <<>> /\ lines[1].ok
    THEN processed(lines[1].text, opts) ELSE <<>>

\* C11: every write that succeeds appends whole lines only: the appended
\* bytes end with a line feed (no line is left unterminated); with use_crlf
\* every line feed has a carriage return right before it, and without it a
\* line feed has none before it other than one that is the last character
\* of the content line just written; the options, and so the terminator,
\* stay the same for as long as the stream is open.
ThmC11_Terminators ==
  [][ /\ stream = "open" => opts' = opts
      /\ (result' = Running /\ out' # out) =>
           LET chunk == Appended
               n == Len(chunk)
           IN /\ chunk[n] = "LF"
              /\ \A k \in 1..n :
                   chunk[k] = "LF" =>
                     IF opts.use_crlf
                       THEN k > 1 /\ chunk[k - 1] = "CR"
                       ELSE (k > 1 /\ chunk[k - 1] = "CR") =>
                              /\ k = n
                              /\ chunk = ContentBody \o <<"LF">> ]_vars

\* A run with CR LF endings that wrote headers, fences, content, blank
\* lines and the footer for two files.
WitC11_CrlfTwoFiles ==
  /\ pc = "wait" /\ opts.use_crlf /\ opts.use_markdown /\ ~opts.no_header
  /\ Len(processed_list) = 2
  /\ Len(out) > 0

\* ------------------------------------------------- write_line, run alone
\* Lines are built from up to MaxPieces pieces: the sequence introducer,
\* parameter digits (one and two at a time), the separator, the final
\* bytes 'm' and '|', a tab, another control character and a letter.
Pieces ==
  { <<"ESC", "[">>, <<"1">>, <<"1", "1">>, <<";">>, <<"m">>, <<"|">>,
    <<"TAB">>, <<"BEL">>, <<"x">> }

RECURSIVE Flat(_)
Flat(ps) == IF ps = <<>> THEN <<>> ELSE ps[1] \o Flat(Tail(ps))

TransformLines == { Flat(ps) : ps \in SeqsUpTo(Pieces, MaxPieces) }

TransformInit ==
  /\ ClassifyIdle
  /\ MainIdle
  /\ tpc = "start"
  /\ tLine \in TransformLines
  /\ tOpts \in [strip_ansi : BOOLEAN, use_crlf : BOOLEAN]
  /\ tWritten = <<>> /\ tAgain = <<>>

\* write_line(w, line) (text_processor.rs:35-60).
WriteLine ==
  /\ tpc = "start"
  /\ tWritten' = processed(tLine, tOpts) \o Terminator(tOpts)
  /\ tpc' = "written"
  /\ UNCHANGED <<cvars, mvars, tLine, tOpts, tAgain>>

\* write_line given the content it wrote for tLine.
WriteAgain ==
  /\ tpc = "written"
  /\ tAgain' = processed(processed(tLine, tOpts), tOpts) \o Terminator(tOpts)
  /\ tpc' = "done"
  /\ UNCHANGED <<cvars, mvars, tLine, tOpts, tWritten>>

TransformNext == WriteLine \/ WriteAgain

SpecTransform == TransformInit /\ [][TransformNext]_vars

\* --------------------------------------------------- write_line: claims
\* p is one or more groups of one or two digits separated by ';'.
DigitGroups(p) ==
  /\ p # <<>>
  /\ \A i \in 1..Len(p) : p[i] \in Digits \cup {";"}
  /\ p[1] # ";" /\ p[Len(p)] # ";"
  /\ \A i \in 1..(Len(p) - 1) : ~(p[i] = ";" /\ p[i + 1] = ";")
  /\ \A i \in 1..(Len(p) - 2) :
       ~(p[i] \in Digits /\ p[i + 1] \in Digits /\ p[i + 2] \in Digits)

\* s[i..e] is ESC, '[', optional parameters, and a final 'm' or 'K'.
SgrOrEl(s, i, e) ==
  /\ i + 2 <= e /\ e <= Len(s)
  /\ s[i] = "ESC" /\ s[i + 1] = "["
  /\ s[e] \in {"m", "K"}
  /\ (e = i + 2 \/ DigitGroups(SubSeq(s, i + 2, e - 1)))

\* s from i on with every substring of that form removed.
RECURSIVE WithoutSgrOrEl(_, _)
WithoutSgrOrEl(s, i) ==
  IF i > Len(s) THEN <<>>
  ELSE IF \E e \in (i + 2)..Len(s) : SgrOrEl(s, i, e)
    THEN WithoutSgrOrEl(s, (CHOOSE e \in (i + 2)..Len(s) : SgrOrEl(s, i, e)) + 1)
    ELSE <<s[i]>> \o WithoutSgrOrEl(s, i + 1)

\* C12: with strip_ansi, what write_line writes for a line is the line with
\* exactly the substrings ESC '[' params ('m' or 'K') removed (params
\* empty or ';'-separated groups of one or two digits), then filtered; a
\* sequence with another final byte, or with a group of three digits,
\* keeps its printable characters.
ClaimC12_OnlySgrOrElRemoved ==
  (tpc = "written" /\ tOpts.strip_ansi) =>
    tWritten = control_filter(WithoutSgrOrEl(tLine, 1)) \o Terminator(tOpts)

\* The positions of s within a match of the regex.
Stripped(s) ==
  { j \in 1..Len(s) : \E i \in 1..j : MatchEnd(s, i) >= j }

\* The characters of s at the positions of keep, in order.
RECURSIVE Pick(_, _, _)
Pick(s, keep, j) ==
  IF j > Len(s) THEN <<>>
  ELSE (IF j \in keep THEN <<s[j]>> ELSE <<>>) \o Pick(s, keep, j + 1)

\* C13: with strip_ansi, write_line writes the characters of the line that
\* are outside every stripped sequence and are not control characters
\* (tabs are kept), in their order, so no control character but the tab;
\* without strip_ansi it writes the line as it is; the terminator follows.
ThmC13_ContentLine ==
  tpc = "written" =>
    LET n == Len(tWritten) - Len(Terminator(tOpts))
        content == SubSeq(tWritten, 1, n)
        keep == { j \in 1..Len(tLine) \ Stripped(tLine) :
                    ~is_control(tLine[j]) \/ tLine[j] = "TAB" }
    IN /\ n >= 0
       /\ SubSeq(tWritten, n + 1, Len(tWritten)) = Terminator(tOpts)
       /\ IF tOpts.strip_ansi
            THEN /\ content = Pick(tLine, keep, 1)
                 /\ \A j \in 1..n :
                      ~is_control(content[j]) \/ content[j] = "TAB"
                 /\ (keep = 1..Len(tLine) => content = tLine)
            ELSE content = tLine

\* A tab, a colour sequence and a bell: the tab alone remains.
WitC13_TabColourBell ==
  /\ tpc = "written" /\ tOpts.strip_ansi /\ ~tOpts.use_crlf
  /\ tLine = <<"TAB", "ESC", "[", "m", "BEL">>
  /\ tWritten = <<"TAB", "LF">>

\* C17: the control-character filter applied twice gives what it gives
\* applied once, and with strip_ansi the content written for a line is
\* written unchanged when it is given to write_line again.
ThmC17_Idempotent ==
  (tpc = "done" /\ tOpts.strip_ansi) =>
    /\ control_filter(control_filter(tLine)) = control_filter(tLine)
    /\ tAgain = tWritten

\* Removing the inner sequence leaves the outer characters in the form of
\* a sequence.
WitC17_Nested ==
  /\ tpc = "done" /\ tOpts.strip_ansi /\ ~tOpts.use_crlf
  /\ tLine = <<"ESC", "[", "ESC", "[", "m", "m">>
  /\ tWritten = <<"[", "m", "LF">>

\* --------------------------------------------------- resolution: claims
\* C14: under MultiAsFileObjects powershell.exe is run at most once, in
\* File mode, only when every input path has been resolved, with the
\* resolved paths in input order, one per input path; while paths are
\* being resolved nothing has been sent; when a resolution fails, it is
\* the first path that cannot be resolved, the invocation ends with that
\* error, and powershell.exe is never run.
ThmC14_AllOrNothing ==
  outcome = "MultiAsFileObjects" =>
    /\ Len(sinkCalls) <= 1
    /\ \A k \in 1..Len(sinkCalls) :
         /\ sinkCalls[k].mode = "File"
         /\ sinkCalls[k].paths = AllResolved
         /\ idx = Len(files.list)
         /\ \A i \in 1..Len(files.list) : FS(files.list[i]).kind # "missing"
    /\ pc = "resolve" =>
         /\ sinkCalls = <<>>
         /\ idx <= Len(files.list)
         /\ win_paths = SubSeq(AllResolved, 1, idx)
    /\ result.tag \in {"FailedToResolvePath", "WslpathFailed"} =>
         /\ pc = "done"
         /\ sinkCalls = <<>>
         /\ idx < Len(files.list)
         /\ win_paths = SubSeq(AllResolved, 1, idx)
         /\ \A i \in 1..idx : FS(files.list[i]).kind # "missing"
         /\ result.tag = "FailedToResolvePath" =>
              FS(files.list[idx + 1]).kind = "missing"
    /\ (\E i \in 1..Len(files.list) : FS(files.list[i]).kind = "missing") =>
         (pc = "done" => result.tag \in {"FailedToResolvePath", "WslpathFailed"})

\* The first of two paths was resolved, the second does not exist.
WitC14_SecondPathMissing ==
  /\ outcome = "MultiAsFileObjects" /\ pc = "done"
  /\ Len(files.list) = 2 /\ idx = 1
  /\ win_paths = <<win_path_of(files.list[1])>>
  /\ result.tag = "FailedToResolvePath"
  /\ sinkCalls = <<>>

ClaimC16_NoControlInStream ==
  (files.some /\ stream # "none" /\ opts.strip_ansi) =>
    \A k \in 1..Len(out) :
      \/ ~is_control(out[k])
      \/ out[k] \in {"TAB", "LF"}
      \/ /\ out[k] = "CR" /\ opts.use_crlf
         /\ (k = Len(out) \/ out[k + 1] = "LF")

\* ----------------------------------------------------- streaming: claims
\* A line loop is about to read line lineNo + 1 of its source.
AtLine == pc \in {"pi_lines", "pi_stdin"} /\ lines # <<>>

\* Content and terminator of the line a line loop is about to write.
LineBytes == ContentBody \o Terminator(opts)

\* The step read the next line and wrote all of it.
LineWritten ==
  /\ lines[1].ok
  /\ out' = out \o LineBytes
  /\ lines' = Tail(lines) /\ lineNo' = lineNo + 1
  /\ pc' = pc /\ result' = Running

\* The step ended the invocation with a read or write error.
LineFailed ==
  /\ pc' = "done"
  /\ result'.tag = (IF lines[1].ok THEN "WriteFailed" ELSE "FailedToReadLine")
  /\ lines' = lines /\ lineNo' = lineNo

\* C18 as stated: a step of a line loop handles one line, the next one
\* of the source: it writes the whole line, content and terminator, and
\* moves on, or it fails and leaves the stream as it was, holding exactly
\* the lines before it; after the invocation has ended nothing is written.
ClaimC18_FailureLeavesWholeLines ==
  [][ /\ AtLine => (LineWritten \/ (LineFailed /\ out' = out))
      /\ pc = "done" => out' = out ]_vars

\* C18, amended: as above, but a step that fails in writing leaves the
\* lines before it followed by a proper prefix (possibly empty) of the
\* bytes of its own line; a step that fails in reading leaves the stream
\* as it was.
ThmC18_LineAtATime ==
  [][ /\ AtLine =>
           \/ LineWritten
           \/ /\ LineFailed
              /\ IF lines[1].ok
                   THEN \E k \in 0..(Len(LineBytes) - 1) :
                          out' = out \o SubSeq(LineBytes, 1, k)
                   ELSE out' = out
      /\ pc = "done" => out' = out ]_vars

\* Standard input, second line: the write failed after its first byte.
WitC18_SecondLineCutShort ==
  /\ ~files.some /\ pc = "done" /\ result.tag = "WriteFailed"
  /\ ~opts.strip_ansi /\ ~opts.use_crlf
  /\ lineNo = 1 /\ Len(lines) = 1
  /\ out = <<"x", "CR", "LF", "TAB">>
=============================================================================
